---- MODULE Spec2Model ----
(***************************************************************************)
(* FastRegistrationTester: the registration flow of src/f.py (desktop,     *)
(* Selenium/Chrome) and of src/fs/注册白嫖.py (mobile, Appium).  One run() *)
(* of one tester object is modelled, statement by statement, against a     *)
(* nondeterministic page-automation driver.                                *)
(*                                                                         *)
(* Time: the wall clock is counted in ticks, TicksPerSecond ticks to the   *)
(* second.  Only time.sleep() advances it; a driver call returns or raises *)
(* within the tick it is made in.  The page may change the code field at   *)
(* every tick.                                                             *)
(*                                                                         *)
(* Text: a Python str is a sequence of one-character strings.              *)
(***************************************************************************)
EXTENDS Integers, Sequences, FiniteSets, TLC

VARIABLES
    variant,      \* which file's FastRegistrationTester runs: "desktop" | "mobile"
    pc,           \* the statement run() is at
    ops,          \* the driver operations of the run, in order (a poll is logged once)
    notifOutcome, \* how the optional wait in _close_notifications ended
    exc,          \* the exception travelling out of the try block, [kind, at]
    result,       \* the dict bound to `result` / handed to `return`
    outcome,      \* what the caller of run() got: "running" | "returned" | "raised"
    snapCount,    \* calls of driver.save_screenshot
    snapOk,       \* whether the last save_screenshot returned
    quitCount,    \* calls of driver.quit
    now,          \* time.time(), in ticks
    start_time,   \* _wait_for_code's start_time (mobile; -1 before it is set)
    end_time,     \* _wait_for_code_input's end_time (desktop; -1 before it is set)
    sleepLeft,    \* ticks left of the running time.sleep()
    field,        \* the page's verification-code input, as the driver would see it
    validAge,     \* ticks since the field last became a valid code (-1: not valid)
    validEarly,   \* the field is valid and became so before the poll's deadline
    sample,       \* the last sample of the poller: [at, ok, raw]
    pollOutcome,  \* "none" | "detected" | "timeout"
    pollEnd,      \* elapsed ticks when the poller ended (-1: has not)
    readUrl,      \* the location _check_result read
    readToast,    \* the toast _check_result met
    returning     \* a `return` inside the try block is waiting for the finally

vars == <<variant, pc, ops, notifOutcome, exc, result, outcome, snapCount, snapOk,
          quitCount, now, start_time, end_time, sleepLeft, field, validAge, validEarly,
          sample, pollOutcome, pollEnd, readUrl, readToast, returning>>

----------------------------------------------------------------------------
(* Bounds and program constants *)

TicksPerSecond == 2
\* what time.time() reads when run() is entered, in ticks
ClockAtStart == 7

CODE_INPUT_TIMEOUT == 120
CODE_LEN == 4
MAX_CODE_WAIT == 300
PollSleepSeconds == 1
SettleSeconds == 2

Variants == {"desktop", "mobile"}

----------------------------------------------------------------------------
(* Text helpers: str.lower, str.strip, str.isdigit, substring test *)

Whitespace == {" ", "\t"}
Digits == {"0", "1", "2", "3", "4", "5", "6", "7", "8", "9"}

LowerChar(c) ==
    CASE c = "D" -> "d" [] c = "E" -> "e" [] c = "H" -> "h" [] c = "M" -> "m"
      [] c = "O" -> "o" [] c = "S" -> "s" [] c = "W" -> "w"
      [] OTHER -> c

Lower(s) == [i \in 1..Len(s) |-> LowerChar(s[i])]

RECURSIVE LStrip(_)
LStrip(s) == IF s # <<>> /\ Head(s) \in Whitespace THEN LStrip(Tail(s)) ELSE s

RECURSIVE RStrip(_)
RStrip(s) ==
    IF s # <<>> /\ s[Len(s)] \in Whitespace THEN RStrip(SubSeq(s, 1, Len(s) - 1)) ELSE s

Strip(s) == RStrip(LStrip(s))

IsDigit(s) == s # <<>> /\ \A i \in 1..Len(s) : s[i] \in Digits

Contains(s, k) ==
    \E i \in 1..(Len(s) - Len(k) + 1) : SubSeq(s, i, i + Len(k) - 1) = k

----------------------------------------------------------------------------
(* The page, as far as the run reads it *)

\* The verification-code <input>:
\*   absent  no such element (find_element raises, find_elements omits it)
\*   stale   found, but any call on the handle raises StaleElementReference
\*   null    found and displayed, get_attribute("value") is None
\*   hidden  found, not displayed, holding `value`
\*   shown   found, displayed, holding `value`
CodeValues ==
    { <<>>,
      <<"1", "2", "3", "4">>,
      <<" ", "1", "2", "3", "4", " ">>,
      <<"1", "2", "3">>,
      <<" ", "1", "2", "3">>,
      <<"1", "2", "3", "4", "5">>,
      <<"1", "2", "a", "4">>,
      <<"1", " ", "3", "4">> }

FieldStates ==
    { [kind |-> k, value |-> <<>>] : k \in {"absent", "stale", "null"} }
      \cup { [kind |-> "shown", value |-> v] : v \in CodeValues }
      \cup { [kind |-> "hidden", value |-> <<"1", "2", "3", "4">>] }

PhoneValue == <<"a", "+", "b", "@", "g">>

\* driver.current_url after the submit
Locations ==
    { <<"x", "/", "r", "e", "g">>,
      <<"x", "/", "H", "O", "M", "E">>,
      <<"x", "/", "D", "a", "s", "h", "b", "o", "a", "r", "d">>,
      <<"x", "/", "w", "e", "l", "c", "o", "m", "e", "?", "a">>,
      <<"S", "u", "c", "c", "e", "s", "s">>,
      <<"x", "/", "h", "o", "m">>,
      <<"x", "/", "h", "o", "/", "m", "e">> }

\* div.el-message: absent (find_element raises), stale (.text raises), or its text
Toasts ==
    { [kind |-> k, text |-> <<>>] : k \in {"absent", "stale"} }
      \cup { [kind |-> "text", text |-> t] :
               t \in { <<>>, <<" ", "\t">>, <<" ", "t", "a", "k", "e", "n", " ">> } }

----------------------------------------------------------------------------
(* _check_result: the classification of (location, toast) *)

\* The fixed messages; each stands for the Chinese literal of the source.
MsgSuccess == <<"registration succeeded">>
MsgUnknown == <<"cannot determine the result">>
MsgTimeout == <<"code not entered in time">>

Keywords ==
    << <<"s", "u", "c", "c", "e", "s", "s">>,
       <<"d", "a", "s", "h", "b", "o", "a", "r", "d">>,
       <<"h", "o", "m", "e">>,
       <<"w", "e", "l", "c", "o", "m", "e">> >>

\* AnyKeyword with the .lower() forgotten
AnyKeywordCaseSensitive(current_url) ==
    \E k \in 1..Len(Keywords) : Contains(current_url, Keywords[k])

\* any(k in current_url.lower() for k in [...])
AnyKeyword(current_url) ==
    \E k \in 1..Len(Keywords) : Contains(Lower(current_url), Keywords[k])

\* the try/except around the toast read, shared by both files word for word
ToastVerdict(toast) ==
    IF toast.kind # "text"
    THEN [status |-> "unknown", msg |-> MsgUnknown]
    ELSE LET t == Strip(toast.text)
         IN  [status |-> IF t # <<>> THEN "error" ELSE "unknown",
              msg    |-> IF t # <<>> THEN t ELSE MsgUnknown]

\* src/f.py: status and msg are set in both branches, one return at the end
CheckResultDesktop(current_url, toast) ==
    LET v == IF AnyKeyword(current_url)
             THEN [status |-> "success", msg |-> MsgSuccess]
             ELSE ToastVerdict(toast)
    IN  [status |-> v.status, message |-> v.msg, url |-> current_url]

\* the mobile file: early return on a keyword, the toast read after it
CheckResultMobile(current_url, toast) ==
    IF AnyKeyword(current_url)
    THEN [status |-> "success", message |-> MsgSuccess, url |-> current_url]
    ELSE LET v == ToastVerdict(toast)
         IN  [status |-> v.status, message |-> v.msg, url |-> current_url]

CheckResult(v, current_url, toast) ==
    IF v = "desktop" THEN CheckResultDesktop(current_url, toast)
    ELSE CheckResultMobile(current_url, toast)

----------------------------------------------------------------------------
(* The pollers' tests of one sample *)

\* src/f.py:181-182: (get_attribute("value") or "").strip(), len == 4 and isdigit
DesktopValue(f) == IF f.kind = "null" THEN <<>> ELSE Strip(f.value)

\* DesktopIsCode with the isdigit() test forgotten
DesktopIsCodeAnyChars(value) == Len(value) = 4

DesktopIsCode(value) == Len(value) = 4 /\ IsDigit(value)

\* One pass of the try block of _wait_for_code_input over the field:
\* "found" (return True), "none" (fall through to the sleep), "caught" (except: pass)
DesktopSample(f) ==
    IF f.kind \in {"absent", "stale"} THEN "caught"
    ELSE IF DesktopIsCode(DesktopValue(f)) THEN "found" ELSE "none"

\* the mobile file, 159: len(val) == self.CODE_LEN and val.isdigit()
MobileIsCode(val) == Len(val) = CODE_LEN /\ IsDigit(val)

\* find_elements(By.CSS_SELECTOR, "input[type='text']"): the phone input, then the
\* code input when the page has one
CodeInputs(f) ==
    << [id |-> "register-phone", kind |-> "shown", value |-> PhoneValue] >>
      \o (IF f.kind = "absent" THEN <<>>
          ELSE << [id |-> "register-code", kind |-> f.kind, value |-> f.value] >>)

\* The for loop of _wait_for_code over the inputs: "found" (return), "none" (loop
\* ended), or the exception a call on an input raised, which nothing catches.
RECURSIVE MobileScan(_)
MobileScan(inputs) ==
    IF inputs = <<>> THEN "none"
    ELSE LET inp == Head(inputs)
         IN  IF inp.kind = "stale" THEN "StaleElementReferenceException"
             ELSE IF inp.kind = "hidden" \/ inp.id = "register-phone"
                  THEN MobileScan(Tail(inputs))
             ELSE IF inp.kind = "null" THEN "AttributeError"
             ELSE IF MobileIsCode(Strip(inp.value)) THEN "found"
             ELSE MobileScan(Tail(inputs))

\* The value of the code input as the poller's test saw it (a history value)
RawValue(f) == IF f.kind \in {"shown", "hidden"} THEN f.value ELSE <<>>

\* The page shows a valid code: displayed, and 4 digits once trimmed
CodeShown(f) ==
    /\ f.kind = "shown"
    /\ Len(Strip(f.value)) = 4
    /\ \A i \in 1..Len(Strip(f.value)) : Strip(f.value)[i] \in Digits

----------------------------------------------------------------------------
(* State of a run *)

NoExc == [kind |-> "none", at |-> "none"]
NoResult == [status |-> "none"]
NoSample == [at |-> -1, ok |-> FALSE, raw |-> <<>>]
Unread == <<"(not read)">>
NoToast == [kind |-> "unread", text |-> <<>>]

\* what a bounded wait followed by its click / send_keys can raise
StepFailures == {"TimeoutException", "WebDriverException"}

Interval == PollSleepSeconds * TicksPerSecond

\* the poll deadline of the running variant, in ticks
Deadline ==
    IF variant = "desktop" THEN CODE_INPUT_TIMEOUT * TicksPerSecond
    ELSE MAX_CODE_WAIT * TicksPerSecond

\* ticks since the poller was entered
Elapsed(t) == IF variant = "desktop" THEN t - (end_time - Deadline) ELSE t - start_time

AgeCap == Interval + 1

stepVars == <<notifOutcome>>
pollVars == <<start_time, end_time, field, validAge, validEarly, sample, pollOutcome, pollEnd>>
clockVars == <<now, sleepLeft>>
checkVars == <<readUrl, readToast>>
exitVars == <<result, outcome, snapCount, snapOk, quitCount, returning>>

Init ==
    /\ variant \in Variants
    /\ pc = "open"
    /\ ops = <<>>
    /\ notifOutcome = "none"
    /\ exc = NoExc
    /\ result = NoResult
    /\ outcome = "running"
    /\ snapCount = 0
    /\ snapOk = FALSE
    /\ quitCount = 0
    /\ now = ClockAtStart
    /\ start_time = -1
    /\ end_time = -1
    /\ sleepLeft = 0
    /\ field = [kind |-> "absent", value |-> <<>>]
    /\ validAge = -1
    /\ validEarly = FALSE
    /\ sample = NoSample
    /\ pollOutcome = "none"
    /\ pollEnd = -1
    /\ readUrl = Unread
    /\ readToast = NoToast
    /\ returning = FALSE

\* An exception leaves the try block: control goes to the finally clause.
Raise(kind, at) ==
    /\ exc' = [kind |-> kind, at |-> at]
    /\ pc' = "snap"

----------------------------------------------------------------------------
(* The steps before the code wait *)

\* run(): self.driver.get(self.url)
Open ==
    /\ pc = "open"
    /\ ops' = Append(ops, "open")
    /\ \/ pc' = "close_notif" /\ exc' = exc
       \/ \E k \in StepFailures : Raise(k, "open")
    /\ UNCHANGED <<variant, stepVars, pollVars, clockVars, checkVars, exitVars>>

\* CloseNotifications with the except clause missing: the wait's timeout travels on
CloseNotificationsFatal ==
    /\ pc = "close_notif"
    /\ ops' = Append(ops, "close_notif")
    /\ \/ notifOutcome' = "ok" /\ pc' = "login_btn" /\ exc' = exc
       \/ notifOutcome' = "timeout" /\ Raise("TimeoutException", "close_notif")
       \/ notifOutcome' = "error" /\ Raise("WebDriverException", "close_notif")
    /\ UNCHANGED <<variant, pollVars, clockVars, checkVars, exitVars>>

\* _close_notifications: only the wait's TimeoutException is caught
CloseNotifications ==
    /\ pc = "close_notif"
    /\ ops' = Append(ops, "close_notif")
    /\ \/ notifOutcome' = "ok" /\ pc' = "login_btn" /\ exc' = exc
       \/ notifOutcome' = "timeout" /\ pc' = "login_btn" /\ exc' = exc
       \/ notifOutcome' = "error" /\ Raise("WebDriverException", "close_notif")
    /\ UNCHANGED <<variant, pollVars, clockVars, checkVars, exitVars>>

\* RequiredStep with the failure noted but the sequence going on to the next step
RequiredStepGoesOn(step, next) ==
    /\ pc = step
    /\ ops' = Append(ops, step)
    /\ \/ pc' = next /\ exc' = exc
       \/ \E k \in StepFailures : exc' = [kind |-> k, at |-> step] /\ pc' = next
    /\ UNCHANGED <<variant, stepVars, pollVars, clockVars, checkVars, exitVars>>

\* self.wait.until(...) followed by .click() / .send_keys(...), nothing caught
RequiredStep(step, next) ==
    /\ pc = step
    /\ ops' = Append(ops, step)
    /\ \/ pc' = next /\ exc' = exc
       \/ \E k \in StepFailures : Raise(k, step)
    /\ UNCHANGED <<variant, stepVars, pollVars, clockVars, checkVars, exitVars>>

GoToRegisterTab ==
    \/ RequiredStep("login_btn", "register_tab")
    \/ RequiredStep("register_tab", "phone")

\* FillForm with the send-code click moved behind the two password fields
FillFormSendCodeLast ==
    \/ RequiredStep("phone", "password")
    \/ RequiredStep("password", "confirm")
    \/ RequiredStep("confirm", "send_code")
    \/ RequiredStep("send_code", "wait_init")

FillForm ==
    \/ RequiredStep("phone", "send_code")
    \/ RequiredStep("send_code", "password")
    \/ RequiredStep("password", "confirm")
    \/ RequiredStep("confirm", "wait_init")

----------------------------------------------------------------------------
(* The code wait *)

\* The page between two ticks: the code input may turn into anything.
\* validAge and validEarly record for how long, and since when, it shows a code.
PageTick(t) ==
    /\ field' \in FieldStates
    /\ validAge' = IF ~CodeShown(field') THEN -1
                   ELSE IF validAge < 0 THEN 0
                   ELSE IF validAge < AgeCap THEN validAge + 1 ELSE AgeCap
    /\ validEarly' = /\ CodeShown(field')
                     /\ IF CodeShown(field) THEN validEarly ELSE Elapsed(t) < Deadline

\* Entry of _wait_for_code_input (end_time = time.time() + CODE_INPUT_TIMEOUT) and
\* of _wait_for_code (start_time = time.time()); the register form is now on the page.
WaitInit ==
    /\ pc = "wait_init"
    /\ ops' = Append(ops, "poll")
    /\ field' \in FieldStates
    /\ validAge' = IF CodeShown(field') THEN 0 ELSE -1
    /\ validEarly' = CodeShown(field')
    /\ IF variant = "desktop"
       THEN /\ end_time' = now + CODE_INPUT_TIMEOUT * TicksPerSecond
            /\ start_time' = start_time
            /\ pc' = "wait_guard"
       ELSE /\ start_time' = now
            /\ end_time' = end_time
            /\ pc' = "wait_sample"
    /\ UNCHANGED <<variant, stepVars, exc, clockVars, sample, pollOutcome, pollEnd,
                   checkVars, exitVars>>

\* DesktopGuard with the caller ignoring the False it returns: the run goes on to
\* the submit after a timeout
DesktopGuardIgnored ==
    /\ pc = "wait_guard"
    /\ variant = "desktop"
    /\ IF now < end_time
       THEN pc' = "wait_sample" /\ UNCHANGED <<pollOutcome, pollEnd>>
       ELSE /\ pollOutcome' = "timeout"
            /\ pollEnd' = Elapsed(now)
            /\ pc' = "submit"
    /\ UNCHANGED <<variant, ops, stepVars, exc, clockVars, start_time, end_time, field,
                   validAge, validEarly, sample, checkVars, exitVars>>

\* src/f.py:178 and 189: while time.time() < end_time ... return False
DesktopGuard ==
    /\ pc = "wait_guard"
    /\ variant = "desktop"
    /\ IF now < end_time
       THEN pc' = "wait_sample" /\ UNCHANGED <<pollOutcome, pollEnd>>
       ELSE /\ pollOutcome' = "timeout"
            /\ pollEnd' = Elapsed(now)
            /\ pc' = "timeout_return"
    /\ UNCHANGED <<variant, ops, stepVars, exc, clockVars, start_time, end_time, field,
                   validAge, validEarly, sample, checkVars, exitVars>>

\* src/f.py:179-188: one sample inside try/except Exception, then the sleep
DesktopPoll ==
    /\ pc = "wait_sample"
    /\ variant = "desktop"
    /\ sample' = [at |-> Elapsed(now), ok |-> DesktopSample(field) # "caught",
                  raw |-> RawValue(field)]
    /\ IF DesktopSample(field) = "found"
       THEN /\ pollOutcome' = "detected"
            /\ pollEnd' = Elapsed(now)
            /\ pc' = "submit"
            /\ sleepLeft' = sleepLeft
       ELSE /\ pc' = "wait_sleep"
            /\ sleepLeft' = Interval
            /\ UNCHANGED <<pollOutcome, pollEnd>>
    /\ UNCHANGED <<variant, ops, stepVars, exc, now, start_time, end_time, field,
                   validAge, validEarly, checkVars, exitVars>>

\* the mobile file, 155-161: find_elements and the for loop, no try around them
MobilePoll ==
    /\ pc = "wait_sample"
    /\ variant = "mobile"
    /\ LET r == MobileScan(CodeInputs(field))
       IN  /\ sample' = [at |-> Elapsed(now), ok |-> r \in {"found", "none"},
                         raw |-> RawValue(field)]
           /\ CASE r = "found" ->
                     /\ pollOutcome' = "detected"
                     /\ pollEnd' = Elapsed(now)
                     /\ pc' = "submit"
                     /\ exc' = exc
                [] r = "none" ->
                     /\ pc' = "wait_check"
                     /\ UNCHANGED <<pollOutcome, pollEnd, exc>>
                [] OTHER ->
                     /\ pollOutcome' = "raised"
                     /\ pollEnd' = Elapsed(now)
                     /\ Raise(r, "poll")
    /\ UNCHANGED <<variant, ops, stepVars, clockVars, start_time, end_time, field,
                   validAge, validEarly, checkVars, exitVars>>

\* MobileCheck with the deadline measured from the epoch instead of start_time
MobileCheckNoStart ==
    /\ pc = "wait_check"
    /\ variant = "mobile"
    /\ IF now > MAX_CODE_WAIT * TicksPerSecond
       THEN /\ pollOutcome' = "timeout"
            /\ pollEnd' = Elapsed(now)
            /\ Raise("TimeoutException", "poll")
            /\ sleepLeft' = sleepLeft
       ELSE /\ pc' = "wait_sleep"
            /\ sleepLeft' = Interval
            /\ UNCHANGED <<pollOutcome, pollEnd, exc>>
    /\ UNCHANGED <<variant, ops, stepVars, now, start_time, end_time, field,
                   validAge, validEarly, sample, checkVars, exitVars>>

\* the mobile file, 162-164: the deadline test after the sample, then the sleep
MobileCheck ==
    /\ pc = "wait_check"
    /\ variant = "mobile"
    /\ IF now - start_time > MAX_CODE_WAIT * TicksPerSecond
       THEN /\ pollOutcome' = "timeout"
            /\ pollEnd' = Elapsed(now)
            /\ Raise("TimeoutException", "poll")
            /\ sleepLeft' = sleepLeft
       ELSE /\ pc' = "wait_sleep"
            /\ sleepLeft' = Interval
            /\ UNCHANGED <<pollOutcome, pollEnd, exc>>
    /\ UNCHANGED <<variant, ops, stepVars, now, start_time, end_time, field,
                   validAge, validEarly, sample, checkVars, exitVars>>

\* PollSleep as time.sleep(0): the loop goes round without the clock moving
PollSleepNoDelay ==
    /\ pc = "wait_sleep"
    /\ now' = now
    /\ sleepLeft' = 0
    /\ PageTick(now)
    /\ pc' = IF variant = "desktop" THEN "wait_guard" ELSE "wait_sample"
    /\ UNCHANGED <<variant, ops, stepVars, exc, start_time, end_time, sample,
                   pollOutcome, pollEnd, checkVars, exitVars>>

\* time.sleep(1), one tick at a time
PollSleep ==
    /\ pc = "wait_sleep"
    /\ now' = now + 1
    /\ sleepLeft' = sleepLeft - 1
    /\ PageTick(now + 1)
    /\ pc' = IF sleepLeft > 1 THEN "wait_sleep"
             ELSE IF variant = "desktop" THEN "wait_guard" ELSE "wait_sample"
    /\ UNCHANGED <<variant, ops, stepVars, exc, start_time, end_time, sample,
                   pollOutcome, pollEnd, checkVars, exitVars>>

\* TimeoutReturn as if the return stood outside the try block: the dict reaches the
\* caller at once, with no finally clause run
TimeoutReturnOutsideTry ==
    /\ pc = "timeout_return"
    /\ ops' = Append(ops, "current_url")
    /\ \/ \E url \in Locations :
             /\ result' = [status |-> "timeout", message |-> MsgTimeout, url |-> url]
             /\ returning' = TRUE
             /\ outcome' = "returned"
             /\ pc' = "done"
             /\ exc' = exc
       \/ /\ Raise("WebDriverException", "timeout_return")
          /\ UNCHANGED <<result, returning, outcome>>
    /\ UNCHANGED <<variant, stepVars, pollVars, clockVars, checkVars,
                   snapCount, snapOk, quitCount>>

\* src/f.py:97-103: the return of the timeout dict, which reads driver.current_url
TimeoutReturn ==
    /\ pc = "timeout_return"
    /\ ops' = Append(ops, "current_url")
    /\ \/ \E url \in Locations :
             /\ result' = [status |-> "timeout", message |-> MsgTimeout, url |-> url]
             /\ returning' = TRUE
             /\ pc' = "snap"
             /\ exc' = exc
       \/ /\ Raise("WebDriverException", "timeout_return")
          /\ UNCHANGED <<result, returning>>
    /\ UNCHANGED <<variant, stepVars, pollVars, clockVars, checkVars, outcome,
                   snapCount, snapOk, quitCount>>

----------------------------------------------------------------------------
(* Submit, classification, and the finally clause *)

\* _submit, then the time.sleep(2) that opens _check_result
Submit ==
    /\ pc = "submit"
    /\ ops' = Append(ops, "submit")
    /\ \/ pc' = "settle" /\ sleepLeft' = SettleSeconds * TicksPerSecond /\ exc' = exc
       \/ \E k \in StepFailures : Raise(k, "submit") /\ sleepLeft' = sleepLeft
    /\ UNCHANGED <<variant, stepVars, pollVars, now, checkVars, exitVars>>

Settle ==
    /\ pc = "settle"
    /\ now' = now + 1
    /\ sleepLeft' = sleepLeft - 1
    /\ pc' = IF sleepLeft > 1 THEN "settle" ELSE "check"
    /\ UNCHANGED <<variant, ops, stepVars, exc, pollVars, checkVars, exitVars>>

\* _check_result after the settle: current_url is read outside any try; the toast
\* is looked up only when no keyword matched
CheckResultStep ==
    /\ pc = "check"
    /\ \/ \E url \in Locations :
             /\ readUrl' = url
             /\ IF AnyKeyword(url)
                THEN /\ readToast' = readToast
                     /\ ops' = Append(ops, "current_url")
                     /\ result' = CheckResult(variant, url, readToast)
                ELSE \E toast \in Toasts :
                     /\ readToast' = toast
                     /\ ops' = ops \o <<"current_url", "find_toast">>
                     /\ result' = CheckResult(variant, url, toast)
             /\ pc' = "snap"
             /\ exc' = exc
       \/ /\ ops' = Append(ops, "current_url")
          /\ Raise("WebDriverException", "check")
          /\ UNCHANGED <<result, checkVars>>
    /\ UNCHANGED <<variant, stepVars, pollVars, clockVars, outcome, snapCount, snapOk,
                   quitCount, returning>>

\* SaveScreenshot without the try/except: a failed capture leaves the finally
\* clause at once, before driver.quit()
SaveScreenshotUncaught ==
    /\ pc = "snap"
    /\ ops' = Append(ops, "save_screenshot")
    /\ snapCount' = snapCount + 1
    /\ \/ snapOk' = TRUE /\ pc' = "quit" /\ exc' = exc
       \/ /\ snapOk' = FALSE
          /\ exc' = [kind |-> "WebDriverException", at |-> "snap"]
          /\ pc' = "end_finally"
    /\ UNCHANGED <<variant, stepVars, pollVars, clockVars, checkVars, result,
                   outcome, quitCount, returning>>

\* finally: save_screenshot inside try/except Exception: pass
SaveScreenshot ==
    /\ pc = "snap"
    /\ ops' = Append(ops, "save_screenshot")
    /\ snapCount' = snapCount + 1
    /\ snapOk' \in BOOLEAN
    /\ pc' = "quit"
    /\ UNCHANGED <<variant, stepVars, exc, pollVars, clockVars, checkVars, result,
                   outcome, quitCount, returning>>

\* finally: self.driver.quit()
Quit ==
    /\ pc = "quit"
    /\ ops' = Append(ops, "quit")
    /\ quitCount' = quitCount + 1
    /\ pc' = "end_finally"
    /\ UNCHANGED <<variant, stepVars, exc, pollVars, clockVars, checkVars, result,
                   outcome, snapCount, snapOk, returning>>

\* The finally clause ends: the pending exception is re-raised, the pending return
\* completes, or control falls through to the statements after the try.
EndFinally ==
    /\ pc = "end_finally"
    /\ IF exc.kind # "none" THEN outcome' = "raised" /\ pc' = "done"
       ELSE IF returning THEN outcome' = "returned" /\ pc' = "done"
       ELSE outcome' = outcome /\ pc' = "finish"
    /\ UNCHANGED <<variant, ops, stepVars, exc, pollVars, clockVars, checkVars, result,
                   snapCount, snapOk, quitCount, returning>>

\* Finish with the url of the result read again from the driver after the try
FinishReadsUrl ==
    /\ pc = "finish"
    /\ ops' = Append(ops, "current_url")
    /\ result' = [status |-> result.status, message |-> result.message,
                  url |-> result.url, duration |-> now - ClockAtStart]
    /\ outcome' = "returned"
    /\ pc' = "done"
    /\ UNCHANGED <<variant, stepVars, exc, pollVars, clockVars, checkVars,
                   snapCount, snapOk, quitCount, returning>>

\* result["duration"] = ...; return result
Finish ==
    /\ pc = "finish"
    /\ result' = [status |-> result.status, message |-> result.message,
                  url |-> result.url, duration |-> now - ClockAtStart]
    /\ outcome' = "returned"
    /\ pc' = "done"
    /\ UNCHANGED <<variant, ops, stepVars, exc, pollVars, clockVars, checkVars,
                   snapCount, snapOk, quitCount, returning>>

Next ==
    \/ Open
    \/ CloseNotifications
    \/ GoToRegisterTab
    \/ FillForm
    \/ WaitInit
    \/ DesktopGuard
    \/ DesktopPoll
    \/ MobilePoll
    \/ MobileCheck
    \/ PollSleep
    \/ TimeoutReturn
    \/ Submit
    \/ Settle
    \/ CheckResultStep
    \/ SaveScreenshot
    \/ Quit
    \/ EndFinally
    \/ Finish

Spec == Init /\ [][Next]_vars

\* One thread runs run() to its end: every call returns or raises and the clock
\* advances, so a statement that can be taken is taken.
FairSpec == Spec /\ WF_vars(Next)

----------------------------------------------------------------------------
(* Properties *)

Done == pc = "done"

\* the required steps that come before the code wait
RequiredBeforeWait ==
    {"login_btn", "register_tab", "phone", "send_code", "password", "confirm"}

\* the statements of the two pollers
PollPcs == {"wait_guard", "wait_sample", "wait_check", "wait_sleep"}

\* text t is exactly four characters, each a decimal digit
FourDigits(t) == Len(t) = 4 /\ \A i \in 1..4 : t[i] \in Digits

\* C1: in both variants, on every exit path of run() and whether or not
\* save_screenshot fails, driver.quit is invoked exactly once: never twice at any
\* point, and once by the time run() has returned or raised.
C1_QuitExactlyOnce ==
    /\ quitCount <= 1
    /\ (Done \/ outcome # "running") => quitCount = 1

\* C1 witness: a run that left by an exception, whose capture failed, and that quit once
C1_Witness ==
    Done /\ outcome = "raised" /\ snapCount = 1 /\ ~snapOk /\ quitCount = 1

\* C2: no error escapes run(): when a step inside the try block fails with an
\* unexpected failure, run() still returns a result, with status unknown.
C2_NoErrorEscapes ==
    (Done /\ exc.kind = "WebDriverException")
        => (outcome = "returned" /\ result.status = "unknown")

\* C3: when the code wait reaches its deadline with no valid code seen, run() returns
\* a result with status timeout and has performed neither the submit nor the
\* classification, in both variants.
C3_TimeoutResult ==
    (Done /\ pollOutcome = "timeout")
        => /\ outcome = "returned"
           /\ result.status = "timeout"
           /\ \A i \in 1..Len(ops) : ops[i] \notin {"submit", "find_toast"}
           /\ readUrl = Unread

\* C4: a timeout of the optional dismiss-notification wait does not abort the run:
\* no exception is pending from that step, the next operation is the login-button
\* wait that opens _go_to_register_tab, and a returned result is exactly what the
\* code wait or the classifier gave (nothing in it comes from the notification step).
C4_OptionalTimeoutContinues ==
    notifOutcome = "timeout"
        => /\ exc.at # "close_notif"
           /\ pc # "close_notif"
           /\ (pc # "login_btn" => (Len(ops) >= 3 /\ ops[3] = "login_btn"))
           /\ outcome = "returned"
                 => \/ /\ pollOutcome = "timeout"
                       /\ result.status = "timeout"
                       /\ result.message = MsgTimeout
                    \/ /\ readUrl # Unread
                       /\ [status |-> result.status, message |-> result.message,
                           url |-> result.url]
                            = CheckResult(variant, readUrl, readToast)

\* C4 witness: the notification wait timed out and the run went on to return the
\* classifier's error result
C4_Witness ==
    notifOutcome = "timeout" /\ outcome = "returned" /\ result.status = "error"

\* C5: when a required step before the code wait times out, the poll is never
\* started, the submit and the classification are never performed, and the only
\* operations after the failed step are the evidence capture and the release.
C5_FatalTimeoutSkipsRest ==
    (exc.kind = "TimeoutException" /\ exc.at \in RequiredBeforeWait)
        => /\ pollOutcome = "none"
           /\ sample = NoSample
           /\ readUrl = Unread
           /\ \E j \in 1..Len(ops) :
                 /\ ops[j] = exc.at
                 /\ \A i \in 1..j : ops[i] \notin {"poll", "submit", "current_url", "find_toast"}
                 /\ SubSeq(ops, j + 1, Len(ops))
                      \in {<<>>, <<"save_screenshot">>, <<"save_screenshot", "quit">>}

\* C5 witness: the password field timed out and the run has ended
C5_Witness ==
    Done /\ exc = [kind |-> "TimeoutException", at |-> "password"]

\* C6: a timeout of a required step reaches the caller of run() as a returned
\* result with status error.
C6_FatalTimeoutIsErrorResult ==
    (Done /\ exc.kind = "TimeoutException" /\ exc.at \in RequiredBeforeWait)
        => (outcome = "returned" /\ result.status = "error")

\* C7: _check_result classifies by first match: a location that contains, in lower
\* case, one of success, dashboard, home, welcome gives success with the success
\* message whatever the toast; otherwise a toast with non-empty trimmed text gives
\* error with that text; otherwise (toast absent, unreadable or empty) unknown with
\* the generic message. The url returned is the location read, and the two
\* variants agree on every (location, toast) pair.
C7_Classification ==
    (pc = "snap" /\ readUrl # Unread) =>
        LET hit == \E k \in { <<"s", "u", "c", "c", "e", "s", "s">>,
                               <<"d", "a", "s", "h", "b", "o", "a", "r", "d">>,
                               <<"h", "o", "m", "e">>,
                               <<"w", "e", "l", "c", "o", "m", "e">> } :
                       Contains(Lower(readUrl), k)
            text == IF readToast.kind = "text" THEN Strip(readToast.text) ELSE <<>>
        IN  /\ result.url = readUrl
            /\ hit => /\ result.status = "success"
                      /\ result.message = MsgSuccess
                      /\ \A toast \in Toasts :
                            CheckResult(variant, readUrl, toast) = result
            /\ (~hit /\ text # <<>>) => result.status = "error" /\ result.message = text
            /\ (~hit /\ text = <<>>) =>
                  result.status = "unknown" /\ result.message = MsgUnknown
            /\ CheckResultDesktop(readUrl, readToast) = result
            /\ CheckResultMobile(readUrl, readToast) = result

\* C7 witness: an upper-case keyword location was classified as success
C7_Witness ==
    pc = "snap" /\ readUrl = <<"x", "/", "H", "O", "M", "E">> /\ result.status = "success"

\* C8: the poller never ends with success on a sample whose trimmed value is not
\* exactly four digits: after such a sample it is still polling, has timed out or
\* was aborted; success is reported only in the tick of a four-digit sample.
C8_OnlyFourDigitsAccepted ==
    /\ pollOutcome = "detected"
         => sample.ok /\ sample.at = pollEnd /\ FourDigits(Strip(sample.raw))
    /\ (sample.at >= 0 /\ ~(sample.ok /\ FourDigits(Strip(sample.raw))))
         => /\ pollOutcome \in {"none", "timeout", "raised"}
            /\ pollOutcome = "none" => pc \in PollPcs

\* C8 witness: a padded code was accepted after earlier samples were rejected
C8_Witness ==
    /\ pollOutcome = "detected"
    /\ sample.raw = <<" ", "1", "2", "3", "4", " ">>
    /\ sample.at > 0

\* C9: a code that becomes valid before the deadline and stays valid is detected
\* within one poll interval: the poller never reports a timeout while the page
\* shows a code that appeared before the deadline, and it is never still polling
\* more than one interval after the code appeared.
C9_ValidCodeDetected ==
    /\ pollOutcome = "timeout" => ~validEarly
    /\ pc \in PollPcs => validAge <= Interval

C11_FailedSampleSwallowed ==
    (sample.at >= 0 /\ ~sample.ok)
        => /\ pollOutcome # "raised"
           /\ exc.at # "poll" \/ exc.kind = "TimeoutException"
           /\ pollOutcome = "none" => pc \in PollPcs

\* C12: every result run() returns, the code-wait timeout result included, has a
\* status among success, timeout, error, unknown and carries message, url and
\* duration.
C12_ResultShape ==
    outcome = "returned"
        => /\ result.status \in {"success", "timeout", "error", "unknown"}
           /\ DOMAIN result = {"status", "message", "url", "duration"}

\* the place of each driver operation in the order of the spec's overview: the
\* code send comes after the identity and password fields
SpecRank(op) ==
    [open |-> 1, close_notif |-> 2, login_btn |-> 3, register_tab |-> 4, phone |-> 5,
     password |-> 6, confirm |-> 7, send_code |-> 8, poll |-> 9, submit |-> 10,
     current_url |-> 11, find_toast |-> 12, save_screenshot |-> 13, quit |-> 14][op]

\* the same with the code send between the identity field and the password fields
CodeRank(op) ==
    [open |-> 1, close_notif |-> 2, login_btn |-> 3, register_tab |-> 4, phone |-> 5,
     send_code |-> 6, password |-> 7, confirm |-> 8, poll |-> 9, submit |-> 10,
     current_url |-> 11, find_toast |-> 12, save_screenshot |-> 13, quit |-> 14][op]

\* (An order is kept throughout when each operation's place is below its
\* successor's.)
\* C13 as stated: the operations of a run happen in the order open, dismiss notice,
\* register tab, identity and password fields, code send, poll, submit, classify,
\* capture, release; the send-code click comes after both password fields.
C13_SpecOrder ==
    \A i \in 1..(Len(ops) - 1) : SpecRank(ops[i]) < SpecRank(ops[i + 1])

\* C13 amended: the same order, except that the send-code button is clicked right
\* after the identity field is filled and before the two password fields.
C13_CodeOrder ==
    \A i \in 1..(Len(ops) - 1) : CodeRank(ops[i]) < CodeRank(ops[i + 1])

\* C13 witness: a complete run, from the page open to the release, toast lookup included
C13_Witness ==
    Done /\ outcome = "returned" /\ Len(ops) = 14

\* the three fields a result gets from the code wait or from the classifier
Core(r) == [status |-> r.status, message |-> r.message, url |-> r.url]

\* the last operation of the run so far
LastOp == IF ops = <<>> THEN "none" ELSE ops[Len(ops)]

\* C14: run() hands a result to its caller only after driver.quit has been invoked
\* for that run, on every returning path, and at most one result is produced per
\* run: once returned, neither the outcome nor the result changes again.
C14_ResultAfterRelease ==
    /\ [](outcome = "returned" => (quitCount = 1 /\ LastOp = "quit" /\ Done))
    /\ [][outcome = "returned" => (outcome' = outcome /\ result' = result)]_vars

\* C14 witness: the desktop timeout dict was returned, after the release
C14_Witness ==
    outcome = "returned" /\ returning /\ quitCount = 1

\* C15: the submit click happens only in a run whose poller ended with a code
\* detected, and right after that poll; a run whose poller timed out never clicks
\* submit and never classifies; a success result exists only where a code was
\* detected.
C15_SubmitOnlyAfterDetection ==
    /\ \A i \in 1..Len(ops) :
         ops[i] = "submit" => (pollOutcome = "detected" /\ i > 1 /\ ops[i - 1] = "poll")
    /\ pollOutcome \in {"timeout", "raised"}
         => /\ \A i \in 1..Len(ops) : ops[i] \notin {"submit", "find_toast"}
            /\ readUrl = Unread
    /\ result.status = "success" => pollOutcome = "detected"

\* C15 witness: a run that ended with a success result
C15_Witness ==
    Done /\ outcome = "returned" /\ result.status = "success"

\* C16: on every exit path exactly one evidence capture is attempted, before the
\* release; a failed capture does not prevent the release and does not change what
\* run() does: the capture step leaves the pending exception, the pending return and
\* the result as they were, so run() raises exactly when a step of the try block
\* raised and otherwise returns what the code wait or the classifier gave.
C16_CaptureNeverMatters ==
    /\ [](Done => /\ snapCount = 1
                  /\ quitCount = 1
                  /\ Len(ops) >= 2
                  /\ ops[Len(ops) - 1] = "save_screenshot"
                  /\ exc.at # "snap"
                  /\ outcome = "raised" <=> exc.kind # "none")
    /\ [](pc = "quit" => (snapCount = 1 /\ quitCount = 0))
    /\ [][pc = "snap" => /\ pc' = "quit"
                         /\ exc' = exc
                         /\ result' = result
                         /\ returning' = returning]_vars

\* C16 witness: the capture failed and the run still returned the classifier's result
C16_Witness ==
    /\ Done /\ ~snapOk /\ outcome = "returned" /\ quitCount = 1
    /\ Core(result) = CheckResult(variant, readUrl, readToast)

\* C17: while the poller is active the elapsed time never exceeds the deadline: no
\* sample is taken, and no code is accepted, at an elapsed time above the deadline.
C17_NoSampleAfterDeadline ==
    /\ sample.at <= Deadline
    /\ pollOutcome = "detected" => pollEnd <= Deadline
    /\ pc \in PollPcs => Elapsed(now) <= Deadline

\* C18: the classifier never fails: whatever fails while it reads the location,
\* finds the toast or reads its text, _check_result returns a result with status
\* unknown and raises nothing.
C18_ClassifierNeverFails ==
    /\ exc.at # "check"
    /\ readToast.kind \in {"absent", "stale"} => result.status = "unknown"

C20_NoUseAfterRelease ==
    /\ quitCount > 0
         => /\ pc \in {"end_finally", "finish", "done"}
            /\ LastOp = "quit"
            /\ \A i \in 1..(Len(ops) - 1) : ops[i] # "quit"
    /\ outcome = "returned"
         => \E i \in 1..(Len(ops) - 1) : ops[i] = "current_url"

\* C20 witness: the desktop timeout result, its url read before the release
C20_Witness ==
    Done /\ returning /\ result.status = "timeout" /\ LastOp = "quit"

TypeOK ==
    /\ variant \in Variants
    /\ quitCount \in 0..2
    /\ snapCount \in 0..2
    /\ outcome \in {"running", "returned", "raised"}
    /\ pollOutcome \in {"none", "detected", "timeout", "raised"}

====
